---- MODULE Spec2Model ----
(***************************************************************************)
(* Model of the istio-pilot charm (charms/istio-pilot/src/charm.py): the   *)
(* ingress relation store, the ingress-gateway services, the labeled       *)
(* objects of the cluster and the handle_ingress reconciliation pass; and  *)
(* the handlers of install, remove, config-changed and ingress-auth.       *)
(*                                                                         *)
(* Strings are sequences of tokens.  A token is the character "/", the     *)
(* format placeholder "{}", or a run of characters that contains neither   *)
(* (an atom such as "app" or "-unit-").  Concatenation is \o, so slicing,  *)
(* strip("/"), split("/") and str.format are computed token by token.      *)
(* An optional value is a sequence of length 0 (absent) or 1 (present).    *)
(***************************************************************************)
EXTENDS Integers, Sequences, FiniteSets, TLC

----------------------------------------------------------------------------
(* Bounds of the model *)

\* number of ingress relations that are ever created (ids 1..MaxRel)
MaxRel == 2
\* number of units a remote application can have (ordinals 0..MaxUnits-1)
MaxUnits == 1
\* number of units of the first application in the one-pass specification
MaxPassUnits == 2
\* number of events that can wait deferred at once
MaxDeferred == 1
\* number of ingress-auth relations that are ever created
MaxAuth == 2

----------------------------------------------------------------------------
(* Optional values and string primitives *)

None == <<>>
Some(x) == <<x>>
IsSome(m) == Len(m) = 1
Get(m) == m[1]

SeqToSet(s) == {s[i] : i \in 1..Len(s)}

\* str.endswith("/")
EndsWithSlash(s) == Len(s) > 0 /\ s[Len(s)] = "/"

\* s[:-1]
DropLast(s) == IF Len(s) = 0 THEN s ELSE SubSeq(s, 1, Len(s) - 1)

RECURSIVE LStripSlash(_)
LStripSlash(s) == IF Len(s) > 0 /\ Head(s) = "/" THEN LStripSlash(Tail(s)) ELSE s

RECURSIVE RStripSlash(_)
RStripSlash(s) == IF EndsWithSlash(s) THEN RStripSlash(DropLast(s)) ELSE s

\* StripSlash that strips the right end only, as rstrip("/") does
StripSlashRight(s) == RStripSlash(s)

\* str.strip("/")
StripSlash(s) == RStripSlash(LStripSlash(s))

\* str.split("/")[-1]: the tokens after the last "/"
RECURSIVE LastSegment(_)
LastSegment(s) ==
    IF Len(s) = 0 \/ s[Len(s)] = "/" THEN <<>>
    ELSE LastSegment(DropLast(s)) \o <<s[Len(s)]>>

\* str.replace("/", "-")
ReplaceSlash(s) == [i \in 1..Len(s) |-> IF s[i] = "/" THEN "-" ELSE s[i]]

\* str.format(arg) for a template with "{}" placeholders
RECURSIVE Format(_, _)
Format(tpl, arg) ==
    IF Len(tpl) = 0 THEN <<>>
    ELSE (IF Head(tpl) = "{}" THEN arg ELSE <<Head(tpl)>>) \o Format(Tail(tpl), arg)

\* str.split(","): the list of the comma separated items
RECURSIVE SplitComma(_)
SplitComma(s) ==
    IF \A i \in 1..Len(s) : s[i] # "," THEN <<s>>
    ELSE LET k == CHOOSE i \in 1..Len(s) :
                     s[i] = "," /\ \A j \in 1..(i - 1) : s[j] # ","
         IN  <<SubSeq(s, 1, k - 1)>> \o SplitComma(SubSeq(s, k + 1, Len(s)))

\* int(version[1:]) for the version strings "v1", "v2", ...
Digits == <<"1", "2", "3", "4", "5", "6", "7", "8", "9">>
VersionNumber(v) == CHOOSE n \in 1..Len(Digits) : Digits[n] = Tail(v)[1]

----------------------------------------------------------------------------
(* The data of the model *)

\* self.app.name of the pilot charm
SelfApp == "istio-pilot"

\* the remote application of ingress relation r (one application per relation)
AppNames == <<"app", "app2", "app3", "app4">>
AppName(r) == AppNames[r]

RelIds == 1..MaxRel

\* unit.name of the unit with ordinal n of an application
UnitName(app, n) == <<app, "/", ToString(n)>>

Versions == {<<"v", "1">>, <<"v", "2">>, <<"v", "3">>}

\* the versions negotiated in the life of the charm: either side of the
\* version that first supports response data
LifeVersions == {<<"v", "2">>, <<"v", "3">>}

Port == 6666

\* a route record as a related application sends it: service, port and prefix
\* are required, namespace, rewrite and per_unit_routes are optional
Route(service, prefix, namespace, rewrite, per_unit_routes) ==
    [service |-> service, port |-> Port, prefix |-> prefix,
     namespace |-> namespace, rewrite |-> rewrite,
     per_unit_routes |-> per_unit_routes]

\* the route records the remote applications send in the life of the charm
RouteSet ==
    { Route("service-name", <<"/">>, None, None, None),
      Route("service-name", <<"/", "app", "/">>, Some("ns"), Some(<<"/">>), Some(TRUE)),
      Route("app2", <<"/", "app2">>, None, None, Some(FALSE)) }

\* prefixes of every shape: the root, with and without a trailing or leading
\* "/", with an inner "/", empty, and slashes only
Prefixes ==
    { <<"/">>, <<"/", "app", "/">>, <<"/", "app">>, <<"app", "/", "v1", "/">>,
      <<>>, <<"/", "/">> }

\* the route records of the one-pass specification: every combination of a
\* prefix with the optional fields absent or present
RouteSetAll ==
    { Route("service-name", prefix, namespace, rewrite, per_unit_routes) :
        prefix \in Prefixes,
        namespace \in {None, Some("ns")},
        rewrite \in {None, Some(<<"/">>)},
        per_unit_routes \in {None, Some(TRUE), Some(FALSE)} }

\* the value of the default-gateways option
DefaultGatewaysConfig == <<"istio-gateway", ",", "second-gateway">>

\* the lists of ingress-gateway services the cluster can answer with: each
\* service is the list of the ips of its status.loadBalancer.ingress
ServiceLists ==
    { <<>>,
      << <<>> >>,
      << <<>>, <<"127.0.0.1", "10.0.0.3">>, <<"10.0.0.2">> >> }

\* response data sent back on the relation
NoData == [url |-> <<>>, unit_urls |-> None]

\* a relation that does not exist (not yet created, or removed)
NoRelation(state) ==
    [state |-> state, version |-> <<"v", "1">>, units |-> {},
     route |-> None, sent |-> None]

EventKinds == {"relation_changed", "relation_departed", "relation_broken"}
Event(kind, r) == [kind |-> kind, rel |-> r]
NoEvent == Event("", 0)

\* documents: one record shape for both kinds
NoDoc ==
    [kind |-> "", name |-> "", gateways |-> <<>>, hosts |-> <<>>,
     http |-> <<>>, host |-> <<>>, subsets |-> <<>>]

\* calls on the cluster client and on the relation interface, as logged
ListOp(kind) ==
    [op |-> "list", kind |-> kind, name |-> "", doc |-> NoDoc, app |-> "",
     data |-> NoData, error |-> ""]
DeleteOp(kind, name) ==
    [op |-> "delete", kind |-> kind, name |-> name, doc |-> NoDoc, app |-> "",
     data |-> NoData, error |-> ""]
ApplyOp(doc) ==
    [op |-> "apply", kind |-> doc.kind, name |-> doc.name, doc |-> doc, app |-> "",
     data |-> NoData, error |-> ""]
\* a delete call that the API server answers with an ApiError
FailedDeleteOp(kind, name, message) ==
    [op |-> "delete", kind |-> kind, name |-> name, doc |-> NoDoc, app |-> "",
     data |-> NoData, error |-> message]
\* codecs.load_all_yaml of a manifest that raises a LoadResourceError
FailedLoadOp(message) ==
    [op |-> "load", kind |-> "", name |-> "", doc |-> NoDoc, app |-> "",
     data |-> NoData, error |-> message]
\* a call of the istioctl binary
IstioctlOp(command) ==
    [op |-> "istioctl", kind |-> "", name |-> command, doc |-> NoDoc, app |-> "",
     data |-> NoData, error |-> ""]
SendOp(app, data) ==
    [op |-> "send_data", kind |-> "", name |-> "", doc |-> NoDoc, app |-> app,
     data |-> data, error |-> ""]

Status(kind, message) == [kind |-> kind, message |-> message]

\* the record of the handler run that has just returned; NoPass when the
\* environment has moved since
NoPass ==
    [handler |-> "", event |-> NoEvent, outcome |-> "", address |-> None,
     routes |-> <<>>, kwargs |-> <<>>, ops |-> <<>>, read |-> <<>>]

\* all orders in which the elements of a finite set can be listed
RECURSIVE Perms(_)
Perms(S) ==
    IF S = {} THEN {<<>>}
    ELSE UNION {{<<x>> \o p : p \in Perms(S \ {x})} : x \in S}

----------------------------------------------------------------------------
(* The istio-gateway charm: data *)

\* the values of the config option kind
GatewayKinds == {"", "ingress", "egress"}

\* the istio-pilot relation as the gateway unit sees it: no relation; a
\* relation whose remote side has not listed its versions; the versions
\* listed and no data; data
PilotStates == {"none", "unlisted", "nodata", "data"}

\* json.dumps([type(scope).__name__, type(status).__name__, status.message])
StatusEntry(scope, kind, message) == [scope |-> scope, kind |-> kind, message |-> message]

\* the handler run of the gateway charm that has just returned
NoRun ==
    [handler |-> "", outcome |-> "", returned |-> None, applied |-> FALSE,
     kubectl |-> "", raised |-> "", found |-> None]

\* a gateway unit as deployed: no hook has run, its status is not set
NoGateway ==
    [leader |-> FALSE, kind |-> "", pilot |-> "none", configmap |-> None,
     unit |-> Status("Unknown", ""), app |-> Status("Unknown", ""),
     manifest |-> FALSE, installed |-> FALSE, at |-> "idle", event |-> "",
     run |-> NoRun]


----------------------------------------------------------------------------
(* State *)

VARIABLES
    relations,    \* ingress relations: id -> [state, version, units, route, sent]
    services,     \* ingress-gateway services in istio-system
    cluster,      \* objects labeled app.juju.is/created-by=<this app>
    unitStatus,   \* self.unit.status
    deferred,     \* events deferred by a handler, to be re-emitted
    lastPass,     \* what the handler run that has just returned did
    config,       \* self.model.config['default-gateways']
    auth,         \* the values of the ingress-auth relation data, by relation
    installed,    \* the install hook has run
    leader,       \* the unit is the leader of its application
    gw,           \* the unit of the istio-gateway charm and its environment
    loadError     \* the message of the LoadResourceError that loading a
                  \* manifest raises, "" when manifests load

vars == <<relations, services, cluster, unitStatus, deferred, lastPass,
          config, auth, installed, leader, gw, loadError>>

\* what the ingress handlers and the environment of the ingress relations
\* leave alone
charmVars == <<config, auth, installed, leader, gw, loadError>>

----------------------------------------------------------------------------
(* handle_ingress: the pure parts *)

\* _get_gateway_address: the first ip of the first ingress-gateway service
\* that has load-balancer ingress points, None when there is none
RECURSIVE _get_gateway_address(_)
_get_gateway_address(svcs) ==
    IF Len(svcs) = 0 THEN None
    ELSE IF Len(Head(svcs)) > 0 THEN Some(Head(svcs)[1])
    ELSE _get_gateway_address(Tail(svcs))

\* the relations whose data the relation store still exposes
Visible(rels) == {r \in RelIds : rels[r].state \in {"active", "broken"}}

\* self.interfaces['ingress'] is set when an ingress relation exists
ingress(rels) == Visible(rels) # {}

\* the keys (relation, application) of ingress.get_data(): the data of the
\* remote application and the data this charm sent back
DataKeys(rels) ==
    {[rel |-> r, app |-> AppName(r)] : r \in {q \in Visible(rels) : IsSome(rels[q].route)}}
    \cup
    {[rel |-> r, app |-> SelfApp] : r \in {q \in Visible(rels) : IsSome(rels[q].sent)}}

\* sorted(items, key=relation id): a stable insertion sort
RECURSIVE InsertById(_, _)
InsertById(sorted, k) ==
    IF Len(sorted) = 0 THEN <<k>>
    ELSE IF sorted[Len(sorted)].rel <= k.rel THEN Append(sorted, k)
    ELSE Append(InsertById(DropLast(sorted), k), sorted[Len(sorted)])

\* SortedById without the sort: the items in the order of the relation store
Unsorted(items) == items

RECURSIVE SortedById(_)
SortedById(items) ==
    IF Len(items) = 0 THEN <<>>
    ELSE InsertById(SortedById(DropLast(items)), items[Len(items)])

\* NotSelf without the filter
WithSelf(items) == items

\* the comprehension's filter: if app != self.app
RECURSIVE NotSelf(_)
NotSelf(items) ==
    IF Len(items) = 0 THEN <<>>
    ELSE (IF Head(items).app # SelfApp THEN <<Head(items)>> ELSE <<>>)
         \o NotSelf(Tail(items))

\* routes: the keys of the route dict in iteration order, for the order in
\* which get_data() lists its items
Routes(rels, items) ==
    IF ingress(rels) THEN NotSelf(SortedById(items)) ELSE <<>>

\* del routes[key]
RECURSIVE Without(_, _)
Without(keys, key) ==
    IF Len(keys) = 0 THEN <<>>
    ELSE (IF Head(keys) = key THEN <<>> ELSE <<Head(keys)>>) \o Without(Tail(keys), key)

\* gateway = self.model.config['default-gateways'].split(',')[0]
gateway == SplitComma(config)[1]

\* self.model.name
ModelName == "kubeflow"

\* SortedUnits with the order reversed
RECURSIVE SortedUnitsDescending(_, _)
SortedUnitsDescending(app, units) ==
    IF units = {} THEN <<>>
    ELSE LET n == CHOOSE m \in units : \A k \in units : m >= k
         IN  <<UnitName(app, n)>> \o SortedUnitsDescending(app, units \ {n})

\* sorted(rel.units, key=lambda u: u.name): names of one application differ in
\* the ordinal only, and ordinals below 10 sort as their numbers do
RECURSIVE SortedUnits(_, _)
SortedUnits(app, units) ==
    IF units = {} THEN <<>>
    ELSE LET n == CHOOSE m \in units : \A k \in units : m <= k
         IN  <<UnitName(app, n)>> \o SortedUnits(app, units \ {n})

\* UnitPrefix without the case of the root prefix
UnitPrefixNoRootCase(prefix) ==
    IF EndsWithSlash(prefix) THEN DropLast(prefix) \o <<"-unit-", "{}", "/">>
    ELSE prefix \o <<"-unit-", "{}">>

\* the unit_prefix template of a prefix
UnitPrefix(prefix) ==
    IF prefix = <<"/">> THEN <<"/", "unit-", "{}", "/">>
    ELSE IF EndsWithSlash(prefix) THEN DropLast(prefix) \o <<"-unit-", "{}", "/">>
    ELSE prefix \o <<"-unit-", "{}">>

\* if 'namespace' not in kwargs: kwargs['namespace'] = self.model.name
Namespace(route) ==
    IF IsSome(route.namespace) THEN Get(route.namespace) ELSE ModelName

\* Rewrite with an assignment in place of setdefault
RewriteIsPrefix(route) == route.prefix

\* kwargs.setdefault("rewrite", prefix)
Rewrite(route) ==
    IF IsSome(route.rewrite) THEN Get(route.rewrite) ELSE route.prefix

\* get_kwargs(rel, version, route): the template's arguments
get_kwargs(app, units, route) ==
    [gateway |-> gateway,
     service |-> route.service,
     port |-> route.port,
     prefix |-> route.prefix,
     per_unit_routes |-> route.per_unit_routes,
     namespace |-> Namespace(route),
     rewrite |-> Rewrite(route),
     unit_prefix |-> UnitPrefix(route.prefix),
     units |-> SortedUnits(app, units)]

----------------------------------------------------------------------------
(* The virtual_service.yaml.j2 template and the response data *)

Host(kw) == <<kw.service, ".", kw.namespace, ".svc.cluster.local">>

\* SubsetName that keeps the unit name as it is
SubsetNameVerbatim(unit) == unit

\* the subset of a unit: the unit name with "/" replaced by "-"
SubsetName(unit) == ReplaceSlash(unit)

\* the rule of the application's prefix
BaseRule(kw) ==
    [name |-> <<"app-route">>, match |-> kw.prefix, rewrite |-> kw.rewrite,
     host |-> Host(kw), port |-> kw.port, subset |-> None]

\* the rule of one unit
UnitRule(kw, unit) ==
    [name |-> <<"unit-">> \o LastSegment(unit) \o <<"-route">>,
     match |-> Format(kw.unit_prefix, LastSegment(unit)),
     rewrite |-> kw.rewrite,
     host |-> Host(kw), port |-> kw.port, subset |-> Some(SubsetName(unit))]

\* {% if per_unit_routes %}
Truthy(flag) == IsSome(flag) /\ Get(flag)

VirtualService(kw) ==
    [kind |-> "VirtualService", name |-> kw.service,
     gateways |-> << <<kw.namespace, "/", kw.gateway>> >>,
     hosts |-> << <<"*">> >>,
     http |-> <<BaseRule(kw)>> \o
              (IF Truthy(kw.per_unit_routes)
               THEN [i \in 1..Len(kw.units) |-> UnitRule(kw, kw.units[i])]
               ELSE <<>>),
     host |-> <<>>, subsets |-> <<>>]

DestinationRule(kw) ==
    [kind |-> "DestinationRule", name |-> kw.service,
     gateways |-> <<>>, hosts |-> <<>>, http |-> <<>>,
     host |-> Host(kw),
     subsets |-> [i \in 1..Len(kw.units) |->
                    [name |-> SubsetName(kw.units[i]),
                     label |-> SubsetName(kw.units[i])]]]

\* t.render(**kwargs): the documents of one route
render(kw) ==
    <<VirtualService(kw)>> \o
    (IF Truthy(kw.per_unit_routes) THEN <<DestinationRule(kw)>> ELSE <<>>)

\* the response data of one route (the body of the send loop)
response_data(address, app, units, route) ==
    LET prefix == StripSlash(route.prefix)
        names  == {UnitName(app, n) : n \in units}
    IN  [url |-> <<"http://", address, "/">> \o prefix \o <<"/">>,
         unit_urls |->
            IF Truthy(route.per_unit_routes)
            THEN Some([u \in names |->
                        <<"http://", address, "/">> \o prefix \o <<"-unit-">>
                        \o LastSegment(u) \o <<"/">>])
            ELSE None]

\* SkipsResponse with the version bound off by one
SkipsResponseBelow2(version) == VersionNumber(version) < 2

\* only version 3+ supports response data
SkipsResponse(version) == VersionNumber(version) < 3

----------------------------------------------------------------------------
(* handle_ingress: the pass *)

\* the resource kinds handle_ingress prunes, in order
IngressResources == <<"VirtualService", "DestinationRule">>

\* DeleteListed that deletes nothing of what is listed
DeleteNothing(kind, listing) == <<>>

\* _delete_objects_with_labels: the listed objects of one kind, each deleted;
\* listing is the order in which the cluster lists the labeled objects
RECURSIVE DeleteListed(_, _)
DeleteListed(kind, listing) ==
    IF Len(listing) = 0 THEN <<>>
    ELSE (IF Head(listing).kind = kind
          THEN <<DeleteOp(kind, Head(listing).name)>> ELSE <<>>)
         \o DeleteListed(kind, Tail(listing))

_delete_objects_with_labels(kind, listing) ==
    <<ListOp(kind)>> \o DeleteListed(kind, listing)

\* _delete_resources: the calls made for a list of resource kinds; what a
\* kind's pass has deleted is not listed again
RECURSIVE _delete_resources(_, _)
_delete_resources(kinds, listing) ==
    IF Len(kinds) = 0 THEN <<>>
    ELSE _delete_objects_with_labels(Head(kinds), listing)
         \o _delete_resources(Tail(kinds),
                              SelectSeq(listing, LAMBDA o : o.kind # Head(kinds)))

ApplyManifestDespiteError(docs) ==
    (IF loadError # "" THEN <<FailedLoadOp(loadError)>> ELSE <<>>)
    \o [i \in 1..Len(docs) |-> ApplyOp(docs[i])]

\* _apply_manifest: one apply per document of the manifest; when loading
\* the manifest raises a LoadResourceError nothing is applied
_apply_manifest(docs) ==
    IF loadError # "" THEN <<FailedLoadOp(loadError)>>
    ELSE [i \in 1..Len(docs) |-> ApplyOp(docs[i])]

\* the LoadResourceError of a log of calls, None when every manifest loaded
LoadErrorOf(ops) ==
    LET failed == SelectSeq(ops, LAMBDA o : o.op = "load")
    IN  IF Len(failed) = 0 THEN None ELSE Some(failed[1].error)

UnitStatusIgnoresLoadError(ops) == Status("Active", "")

\* the unit status a handler leaves: Active as set when the charm is
\* constructed, Blocked with the message when a LoadResourceError was caught
UnitStatusAfter(ops) ==
    IF IsSome(LoadErrorOf(ops)) THEN Status("Blocked", Get(LoadErrorOf(ops)))
    ELSE Status("Active", "")

\* how a handler that reached its end has ended
OutcomeAfter(ops) ==
    IF IsSome(LoadErrorOf(ops)) THEN "LoadResourceError" ELSE "done"

\* the arguments of the render calls, one per route in route order
Kwargs(rels, routes) ==
    [i \in 1..Len(routes) |->
        get_kwargs(routes[i].app, rels[routes[i].rel].units,
                   Get(rels[routes[i].rel].route))]

\* vses: the rendered documents of all routes, joined in route order
RECURSIVE Manifest(_)
Manifest(kwargs) ==
    IF Len(kwargs) = 0 THEN <<>>
    ELSE render(Head(kwargs)) \o Manifest(Tail(kwargs))

\* the send loop: one send_data per route of version 3 or more
RECURSIVE SendResponses(_, _, _)
SendResponses(rels, routes, address) ==
    IF Len(routes) = 0 THEN <<>>
    ELSE LET k == Head(routes)
         IN  (IF SkipsResponse(rels[k.rel].version) THEN <<>>
              ELSE <<SendOp(k.app,
                            response_data(address, k.app, rels[k.rel].units,
                                          Get(rels[k.rel].route)))>>)
             \o SendResponses(rels, Tail(routes), address)

\* the cluster after a sequence of delete and apply calls
RECURSIVE Effect(_, _)
Effect(objects, ops) ==
    IF Len(ops) = 0 THEN objects
    ELSE LET o    == Head(ops)
             rest == {x \in objects : ~(x.kind = o.kind /\ x.name = o.name)}
         IN  Effect(CASE o.op = "delete" /\ o.error = "" -> rest
                      [] o.op = "apply"  -> rest \cup {o.doc}
                      [] OTHER           -> objects,
                    Tail(ops))

\* Sent when the defaults are written into the records of the store
SentAndDefaulted(rels, ops) ==
    [r \in RelIds |->
        IF rels[r].state \in {"active", "broken"} /\ IsSome(rels[r].route)
        THEN LET route == Get(rels[r].route)
             IN  [rels[r] EXCEPT !.route =
                    Some([route EXCEPT !.namespace = Some(Namespace(route)),
                                       !.rewrite = Some(Rewrite(route))])]
        ELSE rels[r]]

\* the relation store after the send_data calls of a pass
Sent(rels, ops) ==
    [r \in RelIds |->
        LET mine == {i \in 1..Len(ops) : ops[i].op = "send_data" /\ ops[i].app = AppName(r)}
        IN  IF mine = {} \/ rels[r].state \notin {"active", "broken"} THEN rels[r]
            ELSE [rels[r] EXCEPT !.sent =
                    Some(ops[CHOOSE i \in mine : \A j \in mine : j <= i].data)]]

\* PassOps with the manifest applied before the old objects are pruned
PassOpsApplyFirst(rels, routes, listing, address) ==
    (IF Len(routes) > 0
     THEN _apply_manifest(Manifest(Kwargs(rels, routes))) ELSE <<>>)
    \o _delete_resources(IngressResources, listing)
    \o SendResponses(rels, routes, address)

\* the calls of a pass that reaches the reconciliation, in program order
PassOps(rels, routes, listing, address) ==
    _delete_resources(IngressResources, listing)
    \o (IF Len(routes) > 0
        THEN _apply_manifest(Manifest(Kwargs(rels, routes))) ELSE <<>>)
    \o SendResponses(rels, routes, address)

\* what get_data() returns when the handler starts: its keys, and the route
\* record of each relation
Read(rels) ==
    <<[keys |-> DataKeys(rels), routes |-> [r \in RelIds |-> rels[r].route]]>>

\* WaitingForAddress with the pruning hoisted above the address check
WaitingForAddressAfterDelete(rels, objects, listing, pass) ==
    [status |-> Status("Waiting", "Waiting for gateway address"),
     defer |-> TRUE,
     cluster |-> Effect(objects, _delete_resources(IngressResources, listing)),
     relations |-> rels,
     pass |-> [pass EXCEPT !.outcome = "deferred"]]

\* if not gateway_address: the status is set, the event deferred, and the
\* handler returns
WaitingForAddress(rels, objects, listing, pass) ==
    [status |-> Status("Waiting", "Waiting for gateway address"),
     defer |-> TRUE, cluster |-> objects, relations |-> rels,
     pass |-> [pass EXCEPT !.outcome = "deferred"]]

\* handle_ingress(event): what one run of the handler does, given the route
\* dict all built from get_data() and the order listing in which the cluster
\* lists its labeled objects
handle_ingress(rels, svcs, objects, event, all, listing) ==
    LET gateway_address == _get_gateway_address(svcs)
        key     == [rel |-> event.rel, app |-> AppName(event.rel)]
        broken  == event.kind = "relation_broken"
        routes  == IF broken THEN Without(all, key) ELSE all
        pass    == [handler |-> "handle_ingress", event |-> event,
                    address |-> gateway_address,
                    outcome |-> "", routes |-> <<>>, kwargs |-> <<>>,
                    ops |-> <<>>, read |-> Read(rels)]
    IN  IF gateway_address = None
        THEN WaitingForAddress(rels, objects, listing, pass)
        ELSE IF broken /\ key \notin SeqToSet(all)
        THEN \* del routes[...] raises KeyError
             [status |-> Status("Active", ""),
              defer |-> FALSE, cluster |-> objects, relations |-> rels,
              pass |-> [pass EXCEPT !.outcome = "KeyError"]]
        ELSE LET ops == PassOps(rels, routes, listing, Get(gateway_address))
             IN  [status |-> UnitStatusAfter(ops),
                  defer |-> FALSE,
                  cluster |-> Effect(objects, ops),
                  relations |-> Sent(rels, ops),
                  pass |-> [pass EXCEPT !.outcome = OutcomeAfter(ops),
                                        !.routes = routes,
                                        !.kwargs = Kwargs(rels, routes),
                                        !.ops = ops]]

----------------------------------------------------------------------------
(* The resources and the handlers of install, remove, config-changed and   *)
(* ingress-auth                                                             *)

\* the resource classes of __init__: each is listed and deleted by its kind
virtual_service_resource == "VirtualService"
destination_rule_resource == "DestinationRule"
gateway_resource == "Gateway"
envoy_filter_resource == "EnvoyFilter"
\* create_namespaced_resource(..., kind="Gateway", plural="gateways")
rbac_config_resource == "Gateway"

\* the values of default-gateways in the life of the charm
Configs ==
    { DefaultGatewaysConfig,
      <<"second-gateway", ",", "istio-gateway">>,
      <<"second-gateway">> }

\* the name a comma separated item stands for
ItemName(item) == IF Len(item) = 0 THEN "" ELSE item[1]

\* gateway.yaml.j2 rendered for one name
GatewayDoc(name) == [NoDoc EXCEPT !.kind = "Gateway", !.name = name]

\* the resources handle_default_gateways prunes
GatewayResources == <<gateway_resource>>

\* DefaultGatewaysOps with the manifest applied before the pruning
DefaultGatewaysOpsApplyFirst(cfg, listing) ==
    LET gateways == SplitComma(cfg)
    IN  _apply_manifest([i \in 1..Len(gateways) |-> GatewayDoc(ItemName(gateways[i]))])
        \o _delete_resources(GatewayResources, listing)

\* the calls of handle_default_gateways, in program order
DefaultGatewaysOps(cfg, listing) ==
    LET gateways == SplitComma(cfg)
    IN  _delete_resources(GatewayResources, listing)
        \o _apply_manifest([i \in 1..Len(gateways) |-> GatewayDoc(ItemName(gateways[i]))])

\* handle_default_gateways(event)
handle_default_gateways(cfg, objects, event, listing) ==
    LET ops == DefaultGatewaysOps(cfg, listing)
    IN  [status |-> UnitStatusAfter(ops),
         cluster |-> Effect(objects, ops),
         pass |-> [NoPass EXCEPT !.handler = "handle_default_gateways",
                                 !.event = event, !.outcome = OutcomeAfter(ops),
                                 !.ops = ops]]

\* an ingress-auth route record; service is absent or empty when None
AuthRoute(service) ==
    [service |-> service, port |-> Port,
     request_headers |-> <<"foo">>, response_headers |-> <<"bar">>]

AuthRouteSet ==
    {AuthRoute(Some("service-name")), AuthRoute(Some("other")), AuthRoute(None)}

\* list(auth_routes.get_data().values()): the records of the relations that
\* carry data
RECURSIVE AuthRoutes(_)
AuthRoutes(store) ==
    IF Len(store) = 0 THEN <<>>
    ELSE Head(store) \o AuthRoutes(Tail(store))

\* src/rbac_config.yaml
RbacConfigDoc == [NoDoc EXCEPT !.kind = "RbacConfig", !.name = "default"]

\* auth_filter.yaml.j2 rendered for one auth route
EnvoyFilterDoc(route) ==
    [NoDoc EXCEPT !.kind = "EnvoyFilter", !.name = "authn-filter",
                  !.host = <<Get(route.service), ".", ModelName, ".svc.cluster.local">>]

\* the resources handle_ingress_auth prunes
AuthResources == <<envoy_filter_resource, rbac_config_resource>>

\* all(ar.get("service") for ar in auth_routes)
AllHaveService(auth_routes) ==
    \A i \in 1..Len(auth_routes) : IsSome(auth_routes[i].service)

AuthManifestFiltersFirst(auth_routes) ==
    [i \in 1..Len(auth_routes) |-> EnvoyFilterDoc(auth_routes[i])]
    \o (IF Len(auth_routes) > 0 THEN <<RbacConfigDoc>> ELSE <<>>)

\* manifests of handle_ingress_auth: rbac_config.yaml when there is a route,
\* then auth_filter.yaml.j2 rendered for every route
AuthManifest(auth_routes) ==
    LET rbac_configs == IF Len(auth_routes) > 0 THEN <<RbacConfigDoc>> ELSE <<>>
        auth_filters == [i \in 1..Len(auth_routes) |-> EnvoyFilterDoc(auth_routes[i])]
    IN  rbac_configs \o auth_filters

AuthOpsPruneFirst(auth_routes, listing) ==
    _delete_resources(AuthResources, listing)
    \o (IF ~AllHaveService(auth_routes) THEN <<>>
        ELSE _apply_manifest(AuthManifest(auth_routes)))

\* the cluster calls of handle_ingress_auth: none when a route lacks its
\* service, else the prune and then the apply of the manifests
AuthOps(auth_routes, listing) ==
    IF ~AllHaveService(auth_routes) THEN <<>>
    ELSE _delete_resources(AuthResources, listing)
         \o _apply_manifest(AuthManifest(auth_routes))

\* handle_ingress_auth(event)
handle_ingress_auth(store, objects, event, listing) ==
    LET auth_routes == AuthRoutes(store)
        ops == AuthOps(auth_routes, listing)
        pass == [NoPass EXCEPT !.handler = "handle_ingress_auth", !.event = event,
                               !.ops = ops]
    IN  IF ~AllHaveService(auth_routes)
        THEN [status |-> Status("Waiting", "Waiting for auth route connection information."),
              cluster |-> Effect(objects, ops),
              pass |-> [pass EXCEPT !.outcome = "waiting"]]
        ELSE [status |-> UnitStatusAfter(ops),
              cluster |-> Effect(objects, ops),
              pass |-> [pass EXCEPT !.outcome = OutcomeAfter(ops)]]

\* install(event)
install(objects, event) ==
    [status |-> Status("Active", ""),
     cluster |-> objects,
     pass |-> [NoPass EXCEPT !.handler = "install", !.event = event,
                             !.outcome = "done",
                             !.ops = <<IstioctlOp("install")>>]]

\* the resources remove prunes
RemoveResources ==
    <<virtual_service_resource, destination_rule_resource, gateway_resource,
      envoy_filter_resource, rbac_config_resource>>

\* the objects of the manifest istioctl generates
IstioctlManifest ==
    << [kind |-> "ResourceObjectFromYaml", name |-> "first"],
       [kind |-> "ResourceObjectFromYaml", name |-> "second"] >>

\* the answers of the API server to a delete: success, or the message of an
\* ApiError
ApiAnswers ==
    { <<>>, <<"something ", "not found">>, <<"(Unauthorized)">>, <<"forbidden">> }

\* "not found" in str(err)
NotFound(message) == \E i \in 1..Len(message) : message[i] = "not found"

\* the message of an error as one string
Message(message) ==
    IF Len(message) = 0 THEN ""
    ELSE IF NotFound(message) THEN "not found" ELSE message[1]

\* the loop of remove over the manifest: each object is deleted; an ApiError
\* is passed over when its message has "not found" and raised otherwise
RECURSIVE DeleteManifest(_, _)
DeleteManifest(objs, answers) ==
    IF Len(objs) = 0 THEN <<>>
    ELSE LET obj == Head(objs)
             err == Head(answers)
         IN  IF Len(err) = 0
             THEN <<DeleteOp(obj.kind, obj.name)>>
                  \o DeleteManifest(Tail(objs), Tail(answers))
             ELSE IF NotFound(err)
             THEN <<FailedDeleteOp(obj.kind, obj.name, Message(err))>>
                  \o DeleteManifest(Tail(objs), Tail(answers))
             ELSE <<FailedDeleteOp(obj.kind, obj.name, Message(err))>>

LoadAndDeleteDespiteError(answers) ==
    (IF loadError # "" THEN <<FailedLoadOp(loadError)>> ELSE <<>>)
    \o DeleteManifest(IstioctlManifest, answers)

\* the try block of remove: the manifest is loaded and its objects deleted;
\* when loading raises a LoadResourceError nothing of it is deleted
LoadAndDeleteManifest(answers) ==
    IF loadError # "" THEN <<FailedLoadOp(loadError)>>
    ELSE DeleteManifest(IstioctlManifest, answers)

\* remove(event), for the answers of the API server to the deletes of the
\* manifest objects
remove(objects, event, listing, answers) ==
    LET pruned == _delete_resources(RemoveResources, listing)
        rest   == LoadAndDeleteManifest(answers)
        ops    == <<IstioctlOp("manifest generate")>> \o pruned \o rest
        raised == /\ Len(rest) > 0
                  /\ rest[Len(rest)].op = "delete"
                  /\ rest[Len(rest)].error \notin {"", "not found"}
    IN  [status |-> UnitStatusAfter(ops),
         cluster |-> Effect(objects, ops),
         pass |-> [NoPass EXCEPT !.handler = "remove", !.event = event,
                                 !.outcome = IF raised THEN "ApiError"
                                             ELSE OutcomeAfter(ops),
                                 !.ops = ops]]

----------------------------------------------------------------------------
(* Event dispatch *)

\* the orders in which the cluster can list its labeled objects, kind by kind
Listings(objects) ==
    LET OfKind(kind) == {o \in objects : o.kind = kind}
    IN  {vs \o dr : vs \in Perms(OfKind("VirtualService")),
                    dr \in Perms(OfKind("DestinationRule"))}

\* the framework runs handle_ingress for the event on the relation store
\* rels, for every order in which get_data() can list its items; others is
\* the set of deferred events that stay deferred whatever the handler does.
\* A broken relation is gone once its hook has run.
Dispatch(rels, event, others) ==
    \E all \in {Routes(rels, items) : items \in Perms(DataKeys(rels))},
       listing \in Listings(cluster) :
      \E res \in {handle_ingress(rels, services, cluster, event, all, listing)} :
            /\ relations' =
                 IF event.kind = "relation_broken"
                 THEN [res.relations EXCEPT ![event.rel] = NoRelation("gone")]
                 ELSE res.relations
            /\ cluster' = res.cluster
            /\ unitStatus' = res.status
            /\ deferred' = IF res.defer THEN others \cup {event} ELSE others
            /\ lastPass' = res.pass
            /\ UNCHANGED <<services, charmVars>>

\* no charm process is running: the last dispatch has exited
Idle == lastPass = NoPass

\* an event can be taken when no dispatch is running and the gateway has an
\* address or fewer than MaxDeferred events wait for one
CanTake ==
    /\ Idle
    /\ _get_gateway_address(services) # None \/ Cardinality(deferred) < MaxDeferred

----------------------------------------------------------------------------
(* Initial state and the steps *)

Init ==
    /\ relations = [r \in RelIds |-> NoRelation("none")]
    /\ services = <<>>
    /\ cluster = {}
    /\ unitStatus = Status("Active", "")
    /\ deferred = {}
    /\ lastPass = NoPass
    /\ config = DefaultGatewaysConfig
    /\ auth = <<>>
    /\ installed = TRUE
    /\ leader = TRUE
    /\ gw = NoGateway
    /\ loadError = ""

\* an ingress relation is created and its schema version negotiated; ids are
\* handed out in ascending order and never used again.  No observed event.
JujuRelationCreated(r, version) ==
    /\ Idle
    /\ relations[r].state = "none"
    /\ \A q \in RelIds : q < r => relations[q].state # "none"
    /\ relations' = [relations EXCEPT ![r] =
                        [NoRelation("active") EXCEPT !.version = version]]
    /\ UNCHANGED <<services, cluster, unitStatus, deferred, lastPass, charmVars>>

\* the load balancer of the ingress gateway comes or goes.  No event.
ServicesChange(svcs) ==
    /\ Idle
    /\ services # svcs
    /\ services' = svcs
    /\ UNCHANGED <<relations, cluster, unitStatus, deferred, lastPass, charmVars>>

\* the remote application writes its route record (or writes it again):
\* ingress relation-changed
RemoteSendsRoute(r, route) ==
    /\ relations[r].state = "active"
    /\ CanTake
    /\ Dispatch([relations EXCEPT ![r].route = Some(route)],
                Event("relation_changed", r), deferred)

\* the next unit of the remote application joins: ingress relation-changed
UnitJoins(r) ==
    /\ relations[r].state = "active"
    /\ Cardinality(relations[r].units) < MaxUnits
    /\ CanTake
    /\ Dispatch([relations EXCEPT ![r].units = @ \cup {Cardinality(@)}],
                Event("relation_changed", r), deferred)

\* the last unit of the remote application leaves: ingress relation-departed
UnitDeparts(r) ==
    /\ relations[r].state = "active"
    /\ relations[r].units # {}
    /\ CanTake
    /\ Dispatch([relations EXCEPT ![r].units = @ \ {Cardinality(@) - 1}],
                Event("relation_departed", r), deferred)

\* the relation is removed: ingress relation-broken.  Its units have left,
\* its application data is still visible while the hook runs.
RelationBroken(r) ==
    /\ relations[r].state = "active"
    /\ CanTake
    /\ Dispatch([relations EXCEPT ![r].state = "broken", ![r].units = {}],
                Event("relation_broken", r), deferred)

\* framework.reemit(): a deferred event is emitted again
Reemit(event) ==
    /\ Idle
    /\ event \in deferred
    /\ Dispatch(relations, event, deferred \ {event})

\* the charm process of the dispatch exits
Exit ==
    /\ ~Idle
    /\ lastPass' = NoPass
    /\ UNCHANGED <<relations, services, cluster, unitStatus, deferred, charmVars>>

Next ==
    \/ \E r \in RelIds, version \in LifeVersions : JujuRelationCreated(r, version)
    \/ \E svcs \in ServiceLists : ServicesChange(svcs)
    \/ \E r \in RelIds, route \in RouteSet : RemoteSendsRoute(r, route)
    \/ \E r \in RelIds : UnitJoins(r)
    \/ \E r \in RelIds : UnitDeparts(r)
    \/ \E r \in RelIds : RelationBroken(r)
    \/ \E event \in deferred : Reemit(event)
    \/ Exit

Spec == Init /\ [][Next]_vars

----------------------------------------------------------------------------
(* One pass over every input: the relation store holds any record of the  *)
(* first application and a few of the others, and one event is handled    *)

FirstRelation ==
    { [state |-> "active", version |-> version, units |-> 0..(k - 1),
       route |-> route, sent |-> None] :
        version \in Versions,
        k \in 0..MaxPassUnits,
        route \in {None} \cup {Some(x) : x \in RouteSetAll} }

OtherRelation ==
    {NoRelation("gone")}
    \cup { [state |-> "active", version |-> <<"v", "3">>, units |-> {0},
            route |-> Some(route), sent |-> None] : route \in RouteSet }

InitPass ==
    /\ relations \in
         { [r \in RelIds |-> IF r = 1 THEN first ELSE others[r]] :
             first \in FirstRelation,
             others \in [RelIds \ {1} -> OtherRelation] }
    /\ services \in ServiceLists
    /\ cluster = {}
    /\ unitStatus = Status("Active", "")
    /\ deferred = {}
    /\ lastPass = NoPass
    /\ config = DefaultGatewaysConfig
    /\ auth = <<>>
    /\ installed = TRUE
    /\ leader = TRUE
    /\ gw = NoGateway
    /\ loadError = ""

\* relation-changed for data that has not changed
RemoteSendsAgain(r) ==
    \E route \in SeqToSet(relations[r].route) : RemoteSendsRoute(r, route)

NextPass ==
    \/ \E r \in RelIds : RemoteSendsAgain(r)
    \/ \E r \in RelIds : UnitJoins(r)
    \/ \E r \in RelIds : UnitDeparts(r)
    \/ \E r \in RelIds : RelationBroken(r)

SpecPass == InitPass /\ [][NextPass]_vars

----------------------------------------------------------------------------
(* The life of the charm: install, config-changed, the ingress and the     *)
(* ingress-auth relation, remove                                           *)

\* the orders in which the cluster can list its labeled objects of every kind
ListingsAll(objects) ==
    {a \o g \o e \o r :
        a \in Listings(objects),
        g \in Perms({o \in objects : o.kind = "Gateway"}),
        e \in Perms({o \in objects : o.kind = "EnvoyFilter"}),
        r \in Perms({o \in objects : o.kind = "RbacConfig"})}

\* a handler other than handle_ingress has run and returned res
Ran(res) ==
    /\ cluster' = res.cluster
    /\ unitStatus' = res.status
    /\ lastPass' = res.pass

\* the ingress gateway has its address; the charm is deployed with the
\* default configuration and has handled no event yet
InitCharm ==
    /\ relations = [r \in RelIds |-> NoRelation("none")]
    /\ services = << <<"127.0.0.1">> >>
    /\ cluster = {}
    /\ unitStatus = Status("Active", "")
    /\ deferred = {}
    /\ lastPass = NoPass
    /\ config = DefaultGatewaysConfig
    /\ auth = <<>>
    /\ installed = FALSE
    /\ leader \in BOOLEAN
    /\ gw = NoGateway
    /\ loadError = ""

\* the install hook, the first hook of the charm
Install ==
    /\ Idle
    /\ ~installed
    /\ installed' = TRUE
    /\ Ran(install(cluster, Event("install", 0)))
    /\ UNCHANGED <<relations, services, deferred, config, auth, leader, gw, loadError>>

\* config-changed: at the start with the configuration as it is, later with
\* a new value of default-gateways
ConfigChanged(cfg) ==
    /\ Idle
    /\ installed
    /\ config' = cfg
    /\ \E listing \in ListingsAll(cluster) :
         Ran(handle_default_gateways(cfg, cluster, Event("config_changed", 0), listing))
    /\ UNCHANGED <<relations, services, deferred, auth, installed, leader, gw, loadError>>

\* an ingress-auth relation is created.  No observed event.
AuthRelationCreated ==
    /\ Idle
    /\ installed
    /\ Len(auth) < MaxAuth
    /\ auth' = Append(auth, None)
    /\ UNCHANGED <<relations, services, cluster, unitStatus, deferred, lastPass,
                   config, installed, leader, gw, loadError>>

\* the remote application writes its auth route: ingress-auth relation-changed
AuthRemoteSendsRoute(i, route) ==
    /\ Idle
    /\ installed
    /\ i \in 1..Len(auth)
    /\ auth' = [auth EXCEPT ![i] = Some(route)]
    /\ \E listing \in ListingsAll(cluster) :
         Ran(handle_ingress_auth(auth', cluster, Event("auth_relation_changed", i), listing))
    /\ UNCHANGED <<relations, services, deferred, config, installed, leader, gw, loadError>>

\* a unit of the remote application leaves: ingress-auth relation-departed
AuthUnitDeparts(i) ==
    /\ Idle
    /\ installed
    /\ i \in 1..Len(auth)
    /\ \E listing \in ListingsAll(cluster) :
         Ran(handle_ingress_auth(auth, cluster, Event("auth_relation_departed", i), listing))
    /\ UNCHANGED <<relations, services, deferred, config, auth, installed, leader, gw, loadError>>

\* the remove hook, the last hook of the charm
Remove(answers) ==
    /\ Idle
    /\ installed
    /\ \E listing \in ListingsAll(cluster) :
         Ran(remove(cluster, Event("remove", 0), listing, answers))
    /\ UNCHANGED <<relations, services, deferred, config, auth, installed, leader, gw, loadError>>

\* the charm process of a hook other than remove exits
ExitHook ==
    /\ ~Idle
    /\ lastPass.handler # "remove"
    /\ lastPass' = NoPass
    /\ loadError' = ""
    /\ UNCHANGED <<relations, services, cluster, unitStatus, deferred,
                   config, auth, installed, leader, gw>>

InitObservesInstall(objects, event) == install(objects, event)

\* Operator.__init__ of a unit that is not the leader: the status is set and
\* the constructor returns before it observes any event
__init__(objects, event) ==
    [status |-> Status("Waiting", "Waiting for leadership"),
     cluster |-> objects,
     pass |-> [NoPass EXCEPT !.handler = "__init__", !.event = event,
                             !.outcome = "not leader"]]

\* the hooks Juju runs on a unit of the charm
HookKinds ==
    {"install", "config_changed", "relation_changed", "relation_departed",
     "relation_broken", "auth_relation_changed", "auth_relation_departed",
     "remove"}

\* a hook runs on a unit that is not the leader: the charm is constructed
\* and the event finds no observer.  The configuration and the relation
\* data are as the hooks of the leader left them; a broken relation is gone
\* once its hook has run.
FollowerHook(kind) ==
    /\ Idle
    /\ ~leader
    /\ IF kind = "install" THEN ~installed ELSE installed
    /\ installed' = TRUE
    /\ kind \in {"relation_changed", "relation_departed", "relation_broken"}
         => relations[1].state = "active"
    /\ kind \in {"auth_relation_changed", "auth_relation_departed"}
         => Len(auth) > 0
    /\ relations' = IF kind = "relation_broken"
                    THEN [relations EXCEPT ![1] = NoRelation("gone")]
                    ELSE relations
    /\ Ran(__init__(cluster, Event(kind, 0)))
    /\ UNCHANGED <<services, deferred, config, auth, leader, gw, loadError>>

\* the unit is elected leader: the leader-elected hook constructs the charm,
\* which sets the status Active; no handler observes the event
LeaderElected ==
    /\ Idle
    /\ ~leader
    /\ installed
    /\ leader' = TRUE
    /\ unitStatus' = Status("Active", "")
    /\ lastPass' = [NoPass EXCEPT !.handler = "__init__",
                                  !.event = Event("leader_elected", 0),
                                  !.outcome = "leader"]
    /\ UNCHANGED <<relations, services, cluster, deferred, config, auth, installed, gw, loadError>>

\* the unit loses the leadership; it learns of it in its next hook
LeaderLost ==
    /\ Idle
    /\ leader
    /\ loadError = ""
    /\ leader' = FALSE
    /\ UNCHANGED <<relations, services, cluster, unitStatus, deferred, lastPass,
                   config, auth, installed, gw, loadError>>

\* the messages of the LoadResourceError of codecs.load_all_yaml
LoadErrors == {"Unknown resource kind"}

\* the manifest that the next hook of the leader renders cannot be loaded:
\* one of its documents is of a kind lightkube has no resource class for
LoaderFails(message) ==
    /\ Idle
    /\ installed
    /\ leader
    /\ loadError = ""
    /\ loadError' = message
    /\ UNCHANGED <<relations, services, cluster, unitStatus, deferred, lastPass,
                   config, auth, installed, leader, gw>>

NextCharm ==
    \/ \E message \in LoadErrors : LoaderFails(message)
    \/ leader /\ Install
    \/ \E cfg \in Configs : leader /\ ConfigChanged(cfg)
    \/ installed /\ JujuRelationCreated(1, <<"v", "3">>)
    \/ \E route \in RouteSet : leader /\ installed /\ RemoteSendsRoute(1, route)
    \/ leader /\ installed /\ RelationBroken(1)
    \/ AuthRelationCreated
    \/ \E i \in 1..MaxAuth, route \in AuthRouteSet :
         leader /\ AuthRemoteSendsRoute(i, route)
    \/ \E i \in 1..MaxAuth : leader /\ AuthUnitDeparts(i)
    \/ \E answers \in [1..Len(IstioctlManifest) -> ApiAnswers] :
         leader /\ Remove(answers)
    \/ \E kind \in HookKinds : FollowerHook(kind)
    \/ LeaderElected
    \/ LeaderLost
    \/ ExitHook

SpecCharm == InitCharm /\ [][NextCharm]_vars

----------------------------------------------------------------------------
(* The istio-gateway charm *)

\* what the ingress charm and its environment are made of
pilotVars == <<relations, services, cluster, unitStatus, deferred, lastPass,
               config, auth, installed, leader, loadError>>

\* the ends of a kubectl call: exit status 0, or a non-zero exit status with
\* the message of the API server
KubectlAnswers == {"", "(Unauthorized)"}

\* the answers of the API server to client.get of the status ConfigMap: the
\* ConfigMap or 404 as the ConfigMap exists or not, or another error
ApiAnswersGet == {"ok", "error"}

\* 'Config item kind must be set', kind being written between backquotes in
\* the source
KindMessage == "Config item kind must be set"

InstallGuardsNoData(g) ==
    IF ~g.leader
    THEN Some(StatusEntry("Unit", "WaitingStatus", "Waiting for leadership"))
    ELSE IF g.pilot = "unlisted"
    THEN Some(StatusEntry("Application", "WaitingStatus", "NoVersionsListed"))
    ELSE IF g.kind \notin {"ingress", "egress"}
    THEN Some(StatusEntry("Application", "BlockedStatus", KindMessage))
    ELSE IF g.pilot = "none"
    THEN Some(StatusEntry("Application", "BlockedStatus", "Waiting for istio-pilot relation"))
    ELSE None

\* the guards of install, in order: the status the first failing one
\* returns, None when all pass
InstallGuards(g) ==
    IF ~g.leader
    THEN Some(StatusEntry("Unit", "WaitingStatus", "Waiting for leadership"))
    ELSE IF g.pilot = "unlisted"
    THEN Some(StatusEntry("Application", "WaitingStatus", "NoVersionsListed"))
    ELSE IF g.kind \notin {"ingress", "egress"}
    THEN Some(StatusEntry("Application", "BlockedStatus", KindMessage))
    ELSE IF g.pilot = "none"
    THEN Some(StatusEntry("Application", "BlockedStatus", "Waiting for istio-pilot relation"))
    ELSE IF g.pilot = "nodata"
    THEN Some(StatusEntry("Application", "BlockedStatus", "Waiting for istio-pilot relation data"))
    ELSE None

\* the body of install(event): the status it returns, whether kubectl
\* applied the manifest, and the message of the exception it raises
gateway_install(g, kubectl) ==
    LET guard == InstallGuards(g)
    IN  IF IsSome(guard)
        THEN [returned |-> guard, applied |-> FALSE, raised |-> ""]
        ELSE IF kubectl = ""
        THEN [returned |-> None, applied |-> TRUE, raised |-> ""]
        ELSE [returned |-> None, applied |-> FALSE, raised |-> kubectl]

\* eval(kind): the status class of a recorded class name
StatusType(name) ==
    CASE name = "ActiveStatus"  -> "Active"
      [] name = "BlockedStatus" -> "Blocked"
      [] name = "WaitingStatus" -> "Waiting"

BodyStatusUnitScoped(body) ==
    IF body.raised # ""
    THEN Some(StatusEntry("Unit", "BlockedStatus", body.raised))
    ELSE body.returned

\* status = f(self, event), an exception of the body being turned into a
\* Blocked status of the application that carries its message
BodyStatus(body) ==
    IF body.raised # ""
    THEN Some(StatusEntry("Application", "BlockedStatus", body.raised))
    ELSE body.returned

ConfigMapDataKeepsEntry(found, status) ==
    IF IsSome(status) THEN status
    ELSE IF IsSome(found) THEN Get(found) ELSE <<>>

\* configmap.data after the wrapper has updated it, found being the
\* ConfigMap as client.get returned it, None on 404: the entry of the
\* handler is deleted when the status is None and written otherwise
ConfigMapData(found, status) ==
    IF IsSome(status) THEN status ELSE <<>>

\* the wrapper of update_status around install: the status of the body is
\* written to the ConfigMap under the name of the handler, and the statuses
\* of the application and of the unit are set from the entries of the
\* ConfigMap
wrapper(g, kubectl, api) ==
    LET body     == gateway_install(g, kubectl)
        status   == BodyStatus(body)
        ran      == [g EXCEPT !.manifest = @ \/ body.applied, !.at = "returned"]
        run      == [NoRun EXCEPT !.handler = "install", !.returned = status,
                                  !.applied = body.applied, !.kubectl = kubectl,
                                  !.raised = body.raised, !.found = g.configmap]
        statuses == ConfigMapData(g.configmap, status)
        app_statuses  == SelectSeq(statuses, LAMBDA st : st.scope \in {"Application", "Relation"})
        unit_statuses == SelectSeq(statuses, LAMBDA st : st.scope = "Unit")
    IN  IF api = "error"
        THEN [ran EXCEPT !.run = [run EXCEPT !.outcome = "ApiError"]]
        ELSE [ran EXCEPT
                !.configmap = Some(statuses),
                !.app = IF Len(app_statuses) > 0
                        THEN Status(StatusType(app_statuses[1].kind), app_statuses[1].message)
                        ELSE IF g.leader THEN Status("Active", "") ELSE @,
                !.unit = IF Len(unit_statuses) > 0
                         THEN Status(StatusType(unit_statuses[1].kind), unit_statuses[1].message)
                         ELSE Status("Active", ""),
                !.run = [run EXCEPT !.outcome = "done"]]

RemoveOutcomeChecked(kubectl) ==
    IF kubectl = "" THEN "done" ELSE "CalledProcessError"

\* subprocess.run of kubectl delete without check: the exit status is not
\* looked at
RemoveOutcome(kubectl) == "done"

\* remove(event)
gateway_remove(g, kubectl) ==
    [g EXCEPT !.manifest = IF kubectl = "" THEN FALSE ELSE @,
              !.at = "returned",
              !.run = [NoRun EXCEPT !.handler = "remove",
                                    !.outcome = RemoveOutcome(kubectl),
                                    !.kubectl = kubectl]]

\* a gateway unit is deployed as the leader or not, with a value of kind
InitGateway ==
    /\ relations = [r \in RelIds |-> NoRelation("none")]
    /\ services = <<>>
    /\ cluster = {}
    /\ unitStatus = Status("Active", "")
    /\ deferred = {}
    /\ lastPass = NoPass
    /\ config = DefaultGatewaysConfig
    /\ auth = <<>>
    /\ installed = TRUE
    /\ leader = TRUE
    /\ loadError = ""
    /\ gw \in {[NoGateway EXCEPT !.leader = l, !.kind = k] :
                 l \in BOOLEAN, k \in GatewayKinds}

\* Juju dispatches a hook: the charm is constructed, Operator.__init__
\* observes the events and touches no status
GatewayInit(g, event) ==
    /\ gw.at = "idle"
    /\ gw' = [g EXCEPT !.at = "initialized", !.event = event, !.installed = TRUE]
    /\ UNCHANGED pilotVars

\* the install hook, the first hook of the unit
GatewayInstallHook == ~gw.installed /\ GatewayInit(gw, "install")

\* config-changed, with the value of kind as it is or a new one
GatewayConfigChanged(kind) ==
    gw.installed /\ GatewayInit([gw EXCEPT !.kind = kind], "config_changed")

\* istio-pilot relation-changed: the remote side lists its versions or
\* writes its data, or a unit of it joins
GatewayPilotChanged(pilot) ==
    /\ gw.installed
    /\ gw.pilot # "none"
    /\ pilot # "none"
    /\ GatewayInit([gw EXCEPT !.pilot = pilot], "relation_changed")

\* the remove hook
GatewayRemoveHook == gw.installed /\ GatewayInit(gw, "remove")

\* the istio-pilot relation is created or removed.  No observed event.
GatewayPilotRelation ==
    /\ gw.at = "idle"
    /\ gw' = [gw EXCEPT !.pilot = IF @ = "none" THEN "unlisted" ELSE "none"]
    /\ UNCHANGED pilotVars

\* the unit becomes the leader or stops being it.  No observed event.
GatewayLeaderChanges ==
    /\ gw.at = "idle"
    /\ gw' = [gw EXCEPT !.leader = ~@]
    /\ UNCHANGED pilotVars

\* the framework emits the event of the hook: install, config-changed and
\* istio-pilot relation-changed run install in its wrapper, remove runs remove
GatewayHandle(kubectl, api) ==
    /\ gw.at = "initialized"
    /\ gw' = IF gw.event = "remove"
             THEN gateway_remove(gw, kubectl)
             ELSE wrapper(gw, kubectl, api)
    /\ UNCHANGED pilotVars

\* the charm process of a hook other than remove exits
GatewayExit ==
    /\ gw.at = "returned"
    /\ gw.run.handler # "remove"
    /\ gw' = [gw EXCEPT !.at = "idle", !.event = "", !.run = NoRun]
    /\ UNCHANGED pilotVars

NextGateway ==
    \/ GatewayInstallHook
    \/ \E kind \in GatewayKinds : GatewayConfigChanged(kind)
    \/ \E pilot \in PilotStates : GatewayPilotChanged(pilot)
    \/ GatewayRemoveHook
    \/ GatewayPilotRelation
    \/ GatewayLeaderChanges
    \/ \E kubectl \in KubectlAnswers, api \in ApiAnswersGet : GatewayHandle(kubectl, api)
    \/ GatewayExit

SpecGateway == InitGateway /\ [][NextGateway]_vars

----------------------------------------------------------------------------
(* Properties *)

HandlerRan == lastPass.handler = "handle_ingress"
PassDone == HandlerRan /\ lastPass.outcome = "done"

\* the calls of a log that change the cluster or the relation data
Changing(ops) == SelectSeq(ops, LAMBDA o : o.op \in {"delete", "apply", "send_data"})
Applied(ops) == SelectSeq(ops, LAMBDA o : o.op = "apply")
SentOps(ops) == SelectSeq(ops, LAMBDA o : o.op = "send_data")

\* C1: when no ingress-gateway service has a load-balancer address, a run of
\* handle_ingress sets the unit status to Waiting('Waiting for gateway
\* address'), defers the event and makes no delete, apply or send_data call:
\* the labeled objects of the cluster and the response data of every
\* relation that still exists are what they were before the event.
C1_NoAddressNoEffect ==
    [][ (lastPass'.handler = "handle_ingress" /\ _get_gateway_address(services) = None)
        => /\ unitStatus' = Status("Waiting", "Waiting for gateway address")
           /\ lastPass'.event \in deferred'
           /\ Changing(lastPass'.ops) = <<>>
           /\ cluster' = cluster
           /\ \A r \in RelIds :
                relations'[r].state = "active" => relations'[r].sent = relations[r].sent
      ]_vars

\* an event was deferred for want of an address while the cluster held
\* objects of an earlier pass and a response had been sent
C1_Witness ==
    /\ HandlerRan
    /\ lastPass.outcome = "deferred"
    /\ _get_gateway_address(services) = None
    /\ unitStatus = Status("Waiting", "Waiting for gateway address")
    /\ cluster # {}
    /\ \E r \in RelIds : IsSome(relations[r].sent)

\* C2: a run of handle_ingress for a relation-broken event (with a gateway
\* address) applies and sends exactly what a pass over the relation store
\* without the broken relation applies and sends, and sends nothing to the
\* application of the broken relation.
C2_BrokenLeavesOthersAsIfAbsent ==
    (HandlerRan /\ lastPass.event.kind = "relation_broken" /\ IsSome(lastPass.address))
    => LET order    == CHOOSE items \in Perms(DataKeys(relations)) : TRUE
           expected == PassOps(relations, Routes(relations, order), <<>>,
                               Get(lastPass.address))
       IN  /\ Applied(lastPass.ops) = Applied(expected)
           /\ SentOps(lastPass.ops) = SentOps(expected)
           /\ \A i \in 1..Len(lastPass.ops) :
                lastPass.ops[i].app # AppName(lastPass.event.rel)

\* the position of a call in the order delete VirtualService, delete
\* DestinationRule, apply, send
Rank(o) ==
    CASE o.op \in {"list", "delete"} /\ o.kind = "VirtualService"  -> 1
      [] o.op \in {"list", "delete"} /\ o.kind = "DestinationRule" -> 2
      [] o.op = "apply"                                            -> 3
      [] o.op = "send_data"                                        -> 4
      [] OTHER                                                     -> 0

\* C3: in a pass that reaches the reconciliation every labeled
\* VirtualService and then every labeled DestinationRule the cluster held is
\* deleted, and objects of no other kind; then the documents are applied;
\* then the responses are sent: no apply or send precedes a delete.
C3_DeleteApplySendOrder ==
    [][ (lastPass'.handler = "handle_ingress" /\ lastPass'.outcome = "done")
        => LET ops == lastPass'.ops
           IN  /\ \A i, j \in 1..Len(ops) : i < j => Rank(ops[i]) <= Rank(ops[j])
               /\ \A i \in 1..Len(ops) : Rank(ops[i]) # 0
               /\ \A o \in cluster : \E i \in 1..Len(ops) : ops[i] = DeleteOp(o.kind, o.name)
               /\ \A i \in 1..Len(ops) :
                    ops[i].op = "delete"
                    => \E o \in cluster : o.kind = ops[i].kind /\ o.name = ops[i].name
      ]_vars

\* a pass deleted a VirtualService and a DestinationRule, applied documents
\* and sent a response
C3_Witness ==
    /\ PassDone
    /\ \E i, j, k, l \in 1..Len(lastPass.ops) :
         /\ lastPass.ops[i].op = "delete" /\ lastPass.ops[i].kind = "VirtualService"
         /\ lastPass.ops[j].op = "delete" /\ lastPass.ops[j].kind = "DestinationRule"
         /\ lastPass.ops[k].op = "apply"
         /\ lastPass.ops[l].op = "send_data"


\* the elements of a finite set of numbers in ascending order
RECURSIVE Ascending(_)
Ascending(S) ==
    IF S = {} THEN <<>>
    ELSE LET m == CHOOSE x \in S : \A y \in S : x <= y
         IN  <<m>> \o Ascending(S \ {m})

\* the relations that have sent a route record and still exist
Requesting == {r \in RelIds : relations[r].state = "active" /\ IsSome(relations[r].route)}

\* the documents of the relations ids, relation by relation
RECURSIVE DocumentsOf(_)
DocumentsOf(ids) ==
    IF Len(ids) = 0 THEN <<>>
    ELSE render(get_kwargs(AppName(Head(ids)), relations[Head(ids)].units,
                           Get(relations[Head(ids)].route)))
         \o DocumentsOf(Tail(ids))

AppliedDocs == [i \in 1..Len(Applied(lastPass.ops)) |-> Applied(lastPass.ops)[i].doc]

\* C4: the documents a pass applies are the documents of the requesting
\* relations in ascending order of relation id, whatever the order in which
\* the relation store lists its entries.
C4_AppliedInRelationIdOrder ==
    PassDone => AppliedDocs = DocumentsOf(Ascending(Requesting))

\* a pass over two requesting relations whose documents differ, with data
\* this charm sent back in the store
C4_Witness ==
    /\ PassDone
    /\ Cardinality(Requesting) = 2
    /\ DocumentsOf(<<1>>) # DocumentsOf(<<2>>)
    /\ AppliedDocs = DocumentsOf(<<1>>) \o DocumentsOf(<<2>>)
    /\ \E k \in DataKeys(relations) : k.app = SelfApp

BelowVersion3 == {<<"v", "1">>, <<"v", "2">>}
InRouteSet(r) == \E i \in 1..Len(lastPass.routes) : lastPass.routes[i].rel = r
SendsTo(r) == {i \in 1..Len(lastPass.ops) :
                 lastPass.ops[i].op = "send_data" /\ lastPass.ops[i].app = AppName(r)}

\* C5: no relation on version v1 or v2 holds response data, and a pass sends
\* one response to each application of its route set on version v3 or more
\* and none to any other, whatever the route says.
C5_ResponsesFromVersion3Only ==
    /\ \A r \in RelIds : relations[r].version \in BelowVersion3 => relations[r].sent = None
    /\ PassDone =>
         \A r \in RelIds :
            /\ (InRouteSet(r) /\ relations[r].version \notin BelowVersion3)
               => Cardinality(SendsTo(r)) = 1 /\ IsSome(relations[r].sent)
            /\ (~InRouteSet(r) \/ relations[r].version \in BelowVersion3)
               => SendsTo(r) = {}

\* a pass over a v2 application that asks for per-unit routes and a v3
\* application: only the second is sent a response
C5_Witness ==
    /\ PassDone
    /\ InRouteSet(1) /\ relations[1].version = <<"v", "2">>
    /\ Truthy(Get(relations[1].route).per_unit_routes)
    /\ SendsTo(1) = {}
    /\ InRouteSet(2) /\ relations[2].version = <<"v", "3">>
    /\ SendsTo(2) # {}


\* the applied documents, route by route: a VirtualService and the
\* DestinationRule that follows it, if one does
RECURSIVE Segments(_)
Segments(docs) ==
    IF Len(docs) = 0 THEN <<>>
    ELSE IF Len(docs) >= 2 /\ docs[2].kind = "DestinationRule"
    THEN <<[vs |-> docs[1], dr |-> Some(docs[2])]>> \o Segments(SubSeq(docs, 3, Len(docs)))
    ELSE <<[vs |-> docs[1], dr |-> None]>> \o Segments(Tail(docs))

\* the route record, the units and the application of the i-th route of the pass
RouteOf(i) == Get(relations[lastPass.routes[i].rel].route)
UnitsOf(i) == relations[lastPass.routes[i].rel].units
AppOf(i) == lastPass.routes[i].app
PerUnit(i) == RouteOf(i).per_unit_routes = Some(TRUE)

\* C6: for every route of a pass the VirtualService has one base rule, which
\* matches the prefix and names no subset, and when per_unit_routes is true
\* one more rule per unit of the relation, in ascending order of unit name;
\* a DestinationRule with one subset per unit follows it if and only if
\* per_unit_routes is true.
C6_RulesAndSubsetsPerUnit ==
    PassDone =>
      LET segs == Segments(AppliedDocs)
      IN  /\ Len(segs) = Len(lastPass.routes)
          /\ \A i \in 1..Len(segs) :
               LET vs    == segs[i].vs
                   units == Ascending(UnitsOf(i))
               IN  /\ vs.kind = "VirtualService"
                   /\ Len(vs.http) = 1 + (IF PerUnit(i) THEN Len(units) ELSE 0)
                   /\ vs.http[1].match = RouteOf(i).prefix
                   /\ vs.http[1].subset = None
                   /\ \A j \in 2..Len(vs.http) :
                        /\ vs.http[j].name = <<"unit-", ToString(units[j - 1]), "-route">>
                        /\ IsSome(vs.http[j].subset)
                   /\ IsSome(segs[i].dr) <=> PerUnit(i)
                   /\ PerUnit(i) =>
                        /\ Get(segs[i].dr).kind = "DestinationRule"
                        /\ Get(segs[i].dr).name = vs.name
                        /\ Len(Get(segs[i].dr).subsets) = Len(units)
                        /\ \A j \in 1..Len(units) :
                             Some(Get(segs[i].dr).subsets[j].name) = vs.http[j + 1].subset

\* a pass over a route with per_unit_routes and two units, and one without
C6_Witness ==
    /\ PassDone
    /\ Len(lastPass.routes) = 2
    /\ PerUnit(1) /\ Cardinality(UnitsOf(1)) = 2
    /\ ~PerUnit(2)
    /\ Len(AppliedDocs) = 3
    /\ Len(AppliedDocs[1].http) = 3
    /\ Len(AppliedDocs[2].subsets) = 2

\* the subsets of a pass equal name(i, n), for route i and unit ordinal n:
\* the subset of each per-unit rule, and the name and the pod-name label of
\* each subset of the DestinationRule
SubsetsAre(name(_, _)) ==
    PassDone =>
      LET segs == Segments(AppliedDocs)
      IN  \A i \in 1..Len(segs) :
            PerUnit(i) =>
              LET units == Ascending(UnitsOf(i))
                  dr    == Get(segs[i].dr)
              IN  \A j \in 1..Len(units) :
                    /\ segs[i].vs.http[j + 1].subset = Some(name(i, units[j]))
                    /\ dr.subsets[j].name = name(i, units[j])
                    /\ dr.subsets[j].label = name(i, units[j])
                    /\ \E k \in 1..Len(dr.subsets) :
                         Some(dr.subsets[k].name) = segs[i].vs.http[j + 1].subset

\* C7 as claimed: the subsets are <service>-<unitOrdinal>, service being the
\* route's service field.
C7_SubsetIsServiceAndOrdinal ==
    SubsetsAre(LAMBDA i, n : <<RouteOf(i).service, "-", ToString(n)>>)

\* C7: when per_unit_routes is set, the subset of each per-unit rule, and
\* the name and the pod-name label of each DestinationRule subset, are
\* <application>-<unitOrdinal>: the unit's name with "/" replaced by "-";
\* the subset a rule refers to is declared in the DestinationRule.
C7_SubsetIsApplicationAndOrdinal ==
    SubsetsAre(LAMBDA i, n : <<AppOf(i), "-", ToString(n)>>)

\* a pass over a per-unit route with units whose service is not named as
\* the application is
C7_Witness ==
    /\ PassDone
    /\ Len(lastPass.routes) >= 1
    /\ PerUnit(1) /\ Cardinality(UnitsOf(1)) = 2
    /\ RouteOf(1).service # AppOf(1)
    /\ Len(AppliedDocs) >= 2
    /\ Len(AppliedDocs[2].subsets) = 2

\* C8: the unit_prefix of a route is "/unit-{}/" when the prefix is "/", the
\* prefix without its last "/" followed by "-unit-{}/" when the prefix ends
\* with "/" and is not "/", and the prefix followed by "-unit-{}" otherwise;
\* exactly one of the three cases applies.
C8_UnitPrefixCases ==
    PassDone =>
      \A i \in 1..Len(lastPass.kwargs) :
        LET p      == RouteOf(i).prefix
            t      == lastPass.kwargs[i].unit_prefix
            root   == p = <<"/">>
            slash  == p # <<"/">> /\ Len(p) > 0 /\ p[Len(p)] = "/"
            other  == ~root /\ ~slash
        IN  /\ root  => t = <<"/", "unit-", "{}", "/">>
            /\ slash => t = SubSeq(p, 1, Len(p) - 1) \o <<"-unit-", "{}", "/">>
            /\ other => t = p \o <<"-unit-", "{}">>
            /\ Cardinality({c \in {<<1, root>>, <<2, slash>>, <<3, other>>} : c[2]}) = 1

\* a pass over the root prefix and over a prefix without a trailing "/"
C8_Witness ==
    /\ PassDone
    /\ Len(lastPass.kwargs) = 2
    /\ RouteOf(1).prefix = <<"/">>
    /\ lastPass.kwargs[1].unit_prefix = <<"/", "unit-", "{}", "/">>
    /\ RouteOf(2).prefix = <<"/", "app2">>
    /\ lastPass.kwargs[2].unit_prefix = <<"/", "app2", "-unit-", "{}">>

\* t is p with its leading and its trailing "/" removed
IsTrimOf(t, p) ==
    /\ Len(t) > 0 => t[1] # "/" /\ t[Len(t)] # "/"
    /\ \E i, j \in 0..Len(p) :
         /\ i + Len(t) + j = Len(p)
         /\ \A a \in 1..i : p[a] = "/"
         /\ \A a \in (Len(p) - j + 1)..Len(p) : p[a] = "/"
         /\ SubSeq(p, i + 1, i + Len(t)) = t

\* C9: the response sent for a route has url "http://<address>/<trimmed>/",
\* trimmed being the prefix with its leading and trailing "/" removed; it has
\* unit_urls if and only if per_unit_routes is true, and then one entry per
\* unit of the relation, keyed by unit name, with the value
\* "http://<address>/<trimmed>-unit-<ordinal>/".
C9_ResponseUrls ==
    PassDone =>
      \A i \in 1..Len(lastPass.routes) :
        \A s \in SendsTo(lastPass.routes[i].rel) :
          LET data    == lastPass.ops[s].data
              address == Get(lastPass.address)
              trimmed == SubSeq(data.url, 4, Len(data.url) - 1)
          IN  /\ Len(data.url) >= 4
              /\ data.url = <<"http://", address, "/">> \o trimmed \o <<"/">>
              /\ IsTrimOf(trimmed, RouteOf(i).prefix)
              /\ IsSome(data.unit_urls) <=> PerUnit(i)
              /\ PerUnit(i) =>
                   /\ DOMAIN Get(data.unit_urls) = {UnitName(AppOf(i), n) : n \in UnitsOf(i)}
                   /\ \A n \in UnitsOf(i) :
                        Get(data.unit_urls)[UnitName(AppOf(i), n)] =
                          <<"http://", address, "/">> \o trimmed
                          \o <<"-unit-", ToString(n), "/">>

\* a response with two unit urls for a prefix with "/" at both ends
C9_Witness ==
    /\ PassDone
    /\ Len(lastPass.routes) >= 1
    /\ RouteOf(1).prefix = <<"/", "app", "/">>
    /\ PerUnit(1) /\ Cardinality(UnitsOf(1)) = 2
    /\ \E s \in SendsTo(lastPass.routes[1].rel) :
         /\ lastPass.ops[s].data.url = <<"http://", "127.0.0.1", "/", "app", "/">>
         /\ IsSome(lastPass.ops[s].data.unit_urls)

\* C10: a route record without namespace gets the model's namespace and one
\* without rewrite gets its prefix; a namespace or rewrite that is present
\* is used as it is.  The rules of the route rewrite to that rewrite and
\* their destination host is in that namespace.
C10_NamespaceAndRewriteDefaults ==
    PassDone =>
      LET segs == Segments(AppliedDocs)
      IN  \A i \in 1..Len(lastPass.kwargs) :
            LET kw == lastPass.kwargs[i]
                rt == RouteOf(i)
            IN  /\ rt.namespace = None => kw.namespace = ModelName
                /\ rt.namespace # None => kw.namespace = rt.namespace[1]
                /\ rt.rewrite = None => kw.rewrite = rt.prefix
                /\ rt.rewrite # None => kw.rewrite = rt.rewrite[1]
                /\ \A j \in 1..Len(segs[i].vs.http) :
                     /\ segs[i].vs.http[j].rewrite = kw.rewrite
                     /\ segs[i].vs.http[j].host =
                          <<rt.service, ".", kw.namespace, ".svc.cluster.local">>

\* a pass over a route without namespace and rewrite and a route with both
C10_Witness ==
    /\ PassDone
    /\ Len(lastPass.kwargs) = 2
    /\ RouteOf(1).namespace = None /\ RouteOf(1).rewrite = None
    /\ RouteOf(1).prefix # <<"/">>
    /\ lastPass.kwargs[1].namespace = ModelName
    /\ RouteOf(2).namespace # None /\ RouteOf(2).rewrite # None
    /\ lastPass.kwargs[2].rewrite # RouteOf(2).prefix


\* C11: the route set of a pass has no entry of the charm's own application:
\* the data the charm sent back on a relation, which get_data() returns with
\* the remote data, gives no document and no response.  The route set is
\* the remote entries get_data() returned, less the entry of a broken
\* relation.
C11_NoRouteOfOwnApplication ==
    PassDone =>
      LET remote == {k \in lastPass.read[1].keys : k.app # SelfApp}
          ev     == lastPass.event
      IN  /\ \A i \in 1..Len(lastPass.routes) : lastPass.routes[i].app # SelfApp
          /\ SeqToSet(lastPass.routes) =
               {k \in remote : ~(ev.kind = "relation_broken" /\ k.rel = ev.rel)}
          /\ Len(Segments(AppliedDocs)) = Len(lastPass.routes)
          /\ \A i \in 1..Len(lastPass.ops) :
               lastPass.ops[i].op = "send_data" => lastPass.ops[i].app # SelfApp

\* a pass that read data the charm had sent back and rendered a route
C11_Witness ==
    /\ PassDone
    /\ \E k \in lastPass.read[1].keys : k.app = SelfApp
    /\ Len(lastPass.routes) >= 1
    /\ Len(AppliedDocs) >= 1
    /\ Len(SentOps(lastPass.ops)) >= 1

\* the relation store as the handler of the event found it, after a step
\* that ran the handler: the store after the step, with the relation of a
\* relation-broken event still visible
StoreOfPass ==
    LET ev == lastPass'.event
    IN  IF ev.kind = "relation_broken"
        THEN [relations' EXCEPT ![ev.rel] =
                IF relations[ev.rel].state = "active"
                THEN [relations[ev.rel] EXCEPT !.state = "broken", !.units = {}]
                ELSE relations[ev.rel]]
        ELSE relations'

\* C12: handling the event of a pass once more, with the relation data, the
\* configuration and the gateway address as they are, applies the same
\* documents in the same order, sends the same responses, and leaves the
\* labeled objects as the first handling left them, in whatever order the
\* store and the cluster list their items.
C12_SecondHandlingRepeatsTheFirst ==
    [][ lastPass'.handler = "handle_ingress" =>
          \A all \in {Routes(StoreOfPass, items) : items \in Perms(DataKeys(StoreOfPass))},
             listing \in Listings(cluster') :
            LET again == handle_ingress(StoreOfPass, services', cluster',
                                        lastPass'.event, all, listing)
            IN  /\ again.pass.outcome = lastPass'.outcome
                /\ Applied(again.pass.ops) = Applied(lastPass'.ops)
                /\ SentOps(again.pass.ops) = SentOps(lastPass'.ops)
                /\ again.cluster = cluster'
      ]_vars

\* a pass over two relations that applied two documents and sent a response
C12_Witness ==
    /\ PassDone
    /\ Len(lastPass.routes) = 2
    /\ Len(AppliedDocs) >= 2
    /\ Len(SentOps(lastPass.ops)) >= 1
    /\ cluster # {}

\* C13: a pass with a gateway address and an empty route set applies no
\* document and sends no response, and deletes every labeled VirtualService
\* and DestinationRule the cluster held.
C13_EmptyRouteSetPrunesOnly ==
    [][ (lastPass'.handler = "handle_ingress" /\ lastPass'.outcome = "done"
         /\ lastPass'.routes = <<>>)
        => /\ Applied(lastPass'.ops) = <<>>
           /\ SentOps(lastPass'.ops) = <<>>
           /\ \A o \in cluster :
                o.kind \in {"VirtualService", "DestinationRule"}
                => /\ \E i \in 1..Len(lastPass'.ops) :
                        lastPass'.ops[i] = DeleteOp(o.kind, o.name)
                   /\ o \notin cluster'
      ]_vars

\* a pass with an empty route set that read only data the charm had sent
\* and deleted what the cluster held
C13_Witness ==
    /\ PassDone
    /\ lastPass.routes = <<>>
    /\ lastPass.read[1].keys # {}
    /\ \E i \in 1..Len(lastPass.ops) : lastPass.ops[i].op = "delete"
    /\ cluster = {}

\* C15: with a gateway address, handle_ingress runs to completion for every
\* event.
C15_HandlerRunsToCompletion ==
    (HandlerRan /\ IsSome(lastPass.address)) => lastPass.outcome = "done"

\* C16: a pass leaves the route records of the relation store as get_data()
\* returned them: the namespace, rewrite, unit_prefix, units and gateway of
\* the render arguments are in the arguments only.
C16_RouteRecordsNotMutated ==
    HandlerRan =>
      \A r \in RelIds :
        relations[r].state = "active" =>
          /\ relations[r].route = lastPass.read[1].routes[r]
          /\ \A i \in 1..Len(lastPass.kwargs) :
               lastPass.routes[i].rel = r =>
                 /\ DOMAIN Get(relations[r].route) =
                      {"service", "port", "prefix", "namespace", "rewrite", "per_unit_routes"}
                 /\ DOMAIN lastPass.kwargs[i] =
                      DOMAIN Get(relations[r].route) \cup {"gateway", "unit_prefix", "units"}

\* a pass that defaulted the namespace and the rewrite of a record that has
\* neither
C16_Witness ==
    /\ PassDone
    /\ Len(lastPass.kwargs) >= 1
    /\ relations[lastPass.routes[1].rel].state = "active"
    /\ RouteOf(1).namespace = None /\ RouteOf(1).rewrite = None
    /\ lastPass.kwargs[1].namespace = ModelName
    /\ lastPass.kwargs[1].rewrite = RouteOf(1).prefix


\* the calls of the log of the given operation
OpsOf(ops, op) == SelectSeq(ops, LAMBDA o : o.op = op)
\* the kinds of the calls of a log, in order
KindsOf(ops) == [i \in 1..Len(ops) |-> ops[i].kind]

\* the VirtualService and DestinationRule documents of the relation data and
\* the configuration as they are
CurrentDocuments ==
    LET items  == CHOOSE order \in Perms(DataKeys(relations)) : TRUE
        routes == Routes(relations, items)
    IN  SeqToSet(Manifest(Kwargs(relations, routes)))

\* C14: after install, config-changed and each ingress event has been
\* handled, the labeled VirtualServices and DestinationRules are those of
\* the current relation data and the current default-gateways: after a
\* config-changed that changes the first gateway the VirtualServices refer
\* to the new gateway.
C14_EveryTriggerRecomputes ==
    (lastPass.handler \in {"install", "handle_default_gateways", "handle_ingress"}
     /\ lastPass.outcome = "done"
     /\ lastPass.event.kind # "relation_broken")
    => /\ \A o \in cluster :
            o.kind = "VirtualService" => o.gateways[1][3] = gateway
       /\ {o \in cluster : o.kind \in {"VirtualService", "DestinationRule"}}
            = CurrentDocuments

\* C17: a run of handle_ingress_auth that reaches the pruning lists and
\* deletes the labeled EnvoyFilters and then the labeled RbacConfigs, and
\* nothing of another kind: the Gateways of handle_default_gateways are
\* still in the cluster after it.
C17_AuthPrunesEnvoyFilterAndRbacConfig ==
    [][ (lastPass'.handler = "handle_ingress_auth" /\ lastPass'.outcome = "done")
        => /\ KindsOf(OpsOf(lastPass'.ops, "list")) = <<"EnvoyFilter", "RbacConfig">>
           /\ \A i \in 1..Len(lastPass'.ops) :
                lastPass'.ops[i].op = "delete"
                => lastPass'.ops[i].kind \in {"EnvoyFilter", "RbacConfig"}
           /\ \A o \in cluster : o.kind = "Gateway" => o \in cluster'
      ]_vars

\* C18: remove lists and deletes the labeled objects of the kinds
\* VirtualService, DestinationRule, Gateway, EnvoyFilter and RbacConfig, in
\* that order, and after that deletes the objects of the istioctl manifest
\* in manifest order.
C18_RemovePrunesFiveKindsThenManifest ==
    lastPass.handler = "remove"
    => LET ops   == lastPass.ops
           lists == {i \in 1..Len(ops) : ops[i].op = "list"}
           rest  == {i \in 1..Len(ops) :
                       ops[i].op = "delete" /\ ops[i].kind = "ResourceObjectFromYaml"}
       IN  /\ KindsOf(OpsOf(ops, "list")) =
                <<"VirtualService", "DestinationRule", "Gateway", "EnvoyFilter",
                  "RbacConfig">>
           /\ \A i \in lists, j \in rest : i < j
           /\ \A i \in 1..Len(ops) :
                (ops[i].op = "delete" /\ i \notin rest) => \A j \in rest : i < j
           /\ \A i, j \in rest :
                i < j => \E a, b \in 1..Len(IstioctlManifest) :
                           /\ a < b
                           /\ IstioctlManifest[a].name = ops[i].name
                           /\ IstioctlManifest[b].name = ops[j].name

\* C19: when the deletes of the manifest objects in remove fail only with
\* errors whose message has "not found" or "(Unauthorized)", the handler
\* does not raise and a delete is made for every object of the manifest.
C19_RemoveIgnoresNotFoundAndUnauthorized ==
    (lastPass.handler = "remove"
     /\ \A i \in 1..Len(lastPass.ops) :
          lastPass.ops[i].error \in {"", "not found", "(Unauthorized)"})
    => /\ lastPass.outcome = "done"
       /\ \A k \in 1..Len(IstioctlManifest) :
            \E i \in 1..Len(lastPass.ops) :
              /\ lastPass.ops[i].op = "delete"
              /\ lastPass.ops[i].name = IstioctlManifest[k].name

\* C20: handle_default_gateways lists and deletes labeled objects of kind
\* Gateway only, every one of them, and then applies one Gateway per name of
\* default-gateways, in the order of the configuration; every delete comes
\* before every apply, and the objects of the other kinds stay.
C20_ConfigChangedReplacesGatewaysOnly ==
    [][ (lastPass'.handler = "handle_default_gateways" /\ lastPass'.outcome = "done")
        => LET ops   == lastPass'.ops
               names == SelectSeq(config', LAMBDA t : t # ",")
           IN  /\ KindsOf(OpsOf(ops, "list")) = <<"Gateway">>
               /\ \A i \in 1..Len(ops) : ops[i].op = "delete" => ops[i].kind = "Gateway"
               /\ \A o \in cluster :
                    IF o.kind = "Gateway"
                    THEN \E i \in 1..Len(ops) : ops[i] = DeleteOp("Gateway", o.name)
                    ELSE o \in cluster'
               /\ Len(OpsOf(ops, "apply")) = Len(names)
               /\ \A k \in 1..Len(names) :
                    /\ OpsOf(ops, "apply")[k].kind = "Gateway"
                    /\ OpsOf(ops, "apply")[k].name = names[k]
               /\ \A i, j \in 1..Len(ops) :
                    (ops[i].op = "delete" /\ ops[j].op = "apply") => i < j
               /\ {o.name : o \in {x \in cluster' : x.kind = "Gateway"}} = SeqToSet(names)
      ]_vars

\* a config-changed that deleted a Gateway and applied two, in a cluster
\* that holds a VirtualService and an EnvoyFilter
C20_Witness ==
    /\ lastPass.handler = "handle_default_gateways"
    /\ \E i \in 1..Len(lastPass.ops) : lastPass.ops[i].op = "delete"
    /\ Len(OpsOf(lastPass.ops, "apply")) = 2
    /\ \E o \in cluster : o.kind = "VirtualService"
    /\ \E o \in cluster : o.kind = "EnvoyFilter"
    /\ Cardinality({o \in cluster : o.kind = "Gateway"}) = 2

C21_WitnessNoRoute ==
    /\ lastPass.handler = "handle_ingress_auth"
    /\ lastPass.outcome = "done"
    /\ Len(AuthRoutes(auth)) = 0

\* C30: when an auth route lacks a non-empty service, handle_ingress_auth
\* sets the status Waiting('Waiting for auth route connection information.')
\* and makes no call on the cluster: nothing is listed, deleted or applied.
C30_MissingServiceWaitsWithoutEffect ==
    [][ (lastPass'.handler = "handle_ingress_auth"
         /\ \E i \in 1..Len(AuthRoutes(auth')) : ~IsSome(AuthRoutes(auth')[i].service))
        => /\ unitStatus' = Status("Waiting", "Waiting for auth route connection information.")
           /\ lastPass'.ops = <<>>
           /\ cluster' = cluster
      ]_vars

\* a run that found a route without service while the cluster held the
\* EnvoyFilter and the RbacConfig of an earlier run
C30_Witness ==
    /\ lastPass.handler = "handle_ingress_auth"
    /\ lastPass.outcome = "waiting"
    /\ \E i \in 1..Len(AuthRoutes(auth)) : ~IsSome(AuthRoutes(auth)[i].service)
    /\ \E o \in cluster : o.kind = "EnvoyFilter"
    /\ \E o \in cluster : o.kind = "RbacConfig"

\* C22: a hook that runs on a unit that is not the leader, whatever its
\* event, leaves the status Waiting('Waiting for leadership') and runs no
\* handler: no istioctl call and no list, delete or apply on the cluster.
C22_FollowerOnlyWaits ==
    [][ (~leader' /\ lastPass = NoPass /\ lastPass' # NoPass)
        => /\ unitStatus' = Status("Waiting", "Waiting for leadership")
           /\ lastPass'.handler = "__init__"
           /\ lastPass'.ops = <<>>
           /\ cluster' = cluster
      ]_vars

\* the remove hook has run on a unit that lost the leadership after it had
\* applied Gateways and an EnvoyFilter; they are still in the cluster
C22_Witness ==
    /\ ~leader
    /\ lastPass.handler = "__init__"
    /\ lastPass.event.kind = "remove"
    /\ unitStatus = Status("Waiting", "Waiting for leadership")
    /\ \E o \in cluster : o.kind = "Gateway"
    /\ \E o \in cluster : o.kind = "EnvoyFilter"

\* the install hook has run on a unit that has never been the leader
C22_WitnessInstall ==
    /\ ~leader
    /\ lastPass.handler = "__init__"
    /\ lastPass.event.kind = "install"
    /\ lastPass.ops = <<>>

\* the two paths are the same, or differ by one "/" at the end
SameUpToSlash(a, b) == a = b \/ a = b \o <<"/">> \/ a \o <<"/">> = b

\* the path of a URL "http://<address><path>"
PathOf(url) == SubSeq(url, 3, Len(url))

\* the prefix matched by the rule of the unit numbered n in a VirtualService
UnitMatch(vs, n) ==
    LET j == CHOOSE j \in 1..Len(vs.http) :
               vs.http[j].name = <<"unit-", ToString(n), "-route">>
    IN  vs.http[j].match

\* C28: for a route with per_unit_routes and each of its units, the path of
\* the unit URL sent back in unit_urls is the prefix matched by the HTTP rule
\* of that unit in the VirtualService, up to one "/" at the end; for every
\* prefix that begins with "/", the prefix "/" and prefixes without "/" at
\* the end included.
C28_UnitUrlIsUnitRuleMatch ==
    PassDone =>
      \A i \in 1..Len(lastPass.routes) :
        (PerUnit(i) /\ Len(RouteOf(i).prefix) > 0 /\ RouteOf(i).prefix[1] = "/") =>
          \A s \in SendsTo(lastPass.routes[i].rel), n \in UnitsOf(i) :
            SameUpToSlash(
              PathOf(Get(lastPass.ops[s].data.unit_urls)[UnitName(AppOf(i), n)]),
              UnitMatch(Segments(AppliedDocs)[i].vs, n))

\* the labeled objects of a kind in the cluster
Labeled(kind) == {o \in cluster : o.kind = kind}

\* C29: once a pass of handle_ingress has completed with a gateway address,
\* the labeled VirtualServices are as many as the applications of the route
\* set, each application has its own, and every labeled VirtualService and
\* DestinationRule is a document of an application of the route set.
C29_OneVirtualServicePerApplication ==
    PassDone =>
      /\ Cardinality(Labeled("VirtualService")) = Len(lastPass.routes)
      /\ \A i, j \in 1..Len(lastPass.routes) :
           i # j => Segments(AppliedDocs)[i].vs.name # Segments(AppliedDocs)[j].vs.name
      /\ Labeled("VirtualService") \cup Labeled("DestinationRule") = SeqToSet(AppliedDocs)

\* C27: when a deferred ingress event is emitted again while the gateway has
\* an address, the handler runs to its end: it deletes every labeled
\* VirtualService and DestinationRule, applies the documents of the current
\* route set, sets the status Active and the event is no longer deferred.
C27_ReemittedEventReconciles ==
    [][ \A event \in deferred :
         (Reemit(event) /\ IsSome(lastPass'.address))
        => /\ lastPass'.outcome = "done"
           /\ unitStatus' = Status("Active", "")
           /\ \A o \in cluster :
                o.kind \in {"VirtualService", "DestinationRule"}
                => \E i \in 1..Len(lastPass'.ops) :
                     lastPass'.ops[i] = DeleteOp(o.kind, o.name)
           /\ {o.doc : o \in SeqToSet(Applied(lastPass'.ops))} = CurrentDocuments'
           /\ event \notin deferred'
      ]_vars

\* C23: a gateway unit that is not the leader has the unit status
\* Waiting('Waiting for leadership') once the charm is initialized, before
\* the event of the hook is handled.
C23_FollowerWaitsOnceInitialized ==
    (gw.at = "initialized" /\ ~gw.leader)
    => gw.unit = Status("Waiting", "Waiting for leadership")

\* C24: when install of a leader gateway unit stops at the guard on kind or
\* at the guard on the istio-pilot relation, the unit status becomes Blocked
\* with the message of that guard.
C24_GuardBlocksTheUnit ==
    (gw.at = "returned" /\ gw.run.handler = "install" /\ gw.run.outcome = "done"
     /\ gw.leader /\ IsSome(gw.run.returned))
    => LET message == Get(gw.run.returned).message
       IN  message \in {KindMessage,
                        "Waiting for istio-pilot relation"}
           => gw.unit = Status("Blocked", message)

\* C25: a run of install applies the manifest only when the unit is the
\* leader, kind is ingress or egress and the istio-pilot relation carries
\* data, all in that run; when the run that applied it has returned, the
\* unit status is Active('').
C25_ApplyOnlyPastAllGuards ==
    [][ (gw.at = "initialized" /\ gw'.at = "returned" /\ gw'.run.handler = "install")
        => /\ gw'.run.applied
                => /\ gw.leader
                   /\ gw.kind \in {"ingress", "egress"}
                   /\ gw.pilot = "data"
           /\ (gw'.manifest /\ ~gw.manifest) => gw'.run.applied
           /\ (gw'.run.applied /\ gw'.run.outcome = "done")
                => gw'.unit = Status("Active", "")
      ]_vars

\* a run that applied the manifest and returned: the manifest is in the
\* cluster, the unit and the application are Active
C25_Witness ==
    /\ gw.at = "returned"
    /\ gw.run.handler = "install"
    /\ gw.run.applied
    /\ gw.run.outcome = "done"
    /\ gw.manifest
    /\ gw.unit = Status("Active", "")
    /\ gw.app = Status("Active", "")

\* C26: remove of the gateway charm runs to its end whatever the end of the
\* kubectl delete of its manifest: a failed delete raises nothing.
C26_RemoveNeverRaises ==
    (gw.at = "returned" /\ gw.run.handler = "remove") => gw.run.outcome = "done"

\* a remove whose kubectl delete was answered (Unauthorized): the manifest
\* is still in the cluster and the handler has returned
C26_Witness ==
    /\ gw.at = "returned"
    /\ gw.run.handler = "remove"
    /\ gw.run.kubectl = "(Unauthorized)"
    /\ gw.run.outcome = "done"
    /\ gw.manifest

\* C32: when the body of install raises, as on a failing kubectl apply, the
\* wrapper does not raise that exception: it writes it to the status
\* ConfigMap under install as a Blocked status of the application with the
\* message of the exception, and the application status becomes Blocked
\* with that message.
C32_BodyExceptionIsRecorded ==
    [][ (gw.at = "initialized" /\ gw'.at = "returned"
         /\ gw'.run.handler = "install" /\ gw'.run.raised # "")
        => /\ gw'.run.outcome \in {"done", "ApiError"}
           /\ gw'.run.returned
                = Some(StatusEntry("Application", "BlockedStatus", gw'.run.raised))
           /\ gw'.run.outcome = "done"
                => /\ gw'.configmap
                        = Some(<<StatusEntry("Application", "BlockedStatus", gw'.run.raised)>>)
                   /\ gw'.app = Status("Blocked", gw'.run.raised)
      ]_vars

\* a run whose kubectl apply failed with (Unauthorized): the wrapper has
\* returned, the entry is in the ConfigMap, the application is Blocked with
\* the message and the manifest is not in the cluster
C32_Witness ==
    /\ gw.at = "returned"
    /\ gw.run.handler = "install"
    /\ gw.run.raised = "(Unauthorized)"
    /\ gw.run.outcome = "done"
    /\ gw.configmap = Some(<<StatusEntry("Application", "BlockedStatus", "(Unauthorized)")>>)
    /\ gw.app = Status("Blocked", "(Unauthorized)")
    /\ ~gw.manifest

\* C33: when the most recent run of install has returned no status, all
\* guards passed and the manifest applied, the status ConfigMap has no entry
\* for install and the unit status is Active(''), whatever earlier runs
\* recorded.
C33_StatusDoesNotOutliveFailure ==
    (gw.at = "returned" /\ gw.run.handler = "install" /\ gw.run.outcome = "done"
     /\ gw.run.returned = None)
    => /\ gw.run.applied
       /\ gw.configmap = Some(<<>>)
       /\ gw.unit = Status("Active", "")

\* a run that returned no status and found in the ConfigMap the Blocked
\* entry of an earlier run
C33_Witness ==
    /\ gw.at = "returned"
    /\ gw.run.handler = "install"
    /\ gw.run.outcome = "done"
    /\ gw.run.returned = None
    /\ IsSome(gw.run.found)
    /\ Len(Get(gw.run.found)) = 1
    /\ Get(gw.run.found)[1].kind = "BlockedStatus"
    /\ gw.configmap = Some(<<>>)
    /\ gw.unit = Status("Active", "")

\* the same after an earlier run of the unit as a non-leader: the entry
\* found is the Waiting status of the unit
C33_WitnessWaiting ==
    /\ gw.at = "returned"
    /\ gw.run.handler = "install"
    /\ gw.run.outcome = "done"
    /\ gw.run.returned = None
    /\ gw.run.found = Some(<<StatusEntry("Unit", "WaitingStatus", "Waiting for leadership")>>)
    /\ gw.unit = Status("Active", "")

\* C31: when loading a manifest raises a LoadResourceError, in
\* _apply_manifest or in remove, the handler returns: the unit status is
\* Blocked with the message of the error, no object of the manifest is
\* applied or deleted, and no apply or delete follows the error.
C31_LoadErrorIsCaught ==
    [][ (lastPass = NoPass /\ IsSome(LoadErrorOf(lastPass'.ops)))
        => LET ops == lastPass'.ops
               k   == CHOOSE i \in 1..Len(ops) : ops[i].op = "load"
           IN  /\ lastPass'.outcome = "LoadResourceError"
               /\ unitStatus' = Status("Blocked", Get(LoadErrorOf(ops)))
               /\ \A j \in 1..Len(ops) :
                    /\ ops[j].op # "apply"
                    /\ ops[j].kind # "ResourceObjectFromYaml"
                    /\ j > k => ops[j].op \notin {"apply", "delete"}
               /\ \A o \in cluster' : o \in cluster
      ]_vars

\* a run of handle_ingress_auth that deleted the EnvoyFilter of an earlier
\* run and then failed to load its manifest
C31_Witness ==
    /\ lastPass.handler = "handle_ingress_auth"
    /\ lastPass.outcome = "LoadResourceError"
    /\ unitStatus = Status("Blocked", "Unknown resource kind")
    /\ \E i \in 1..Len(lastPass.ops) :
         lastPass.ops[i].op = "delete" /\ lastPass.ops[i].kind = "EnvoyFilter"
    /\ IsSome(LoadErrorOf(lastPass.ops))

\* a run of remove that failed to load the manifest of istioctl
C31_WitnessRemove ==
    /\ lastPass.handler = "remove"
    /\ lastPass.outcome = "LoadResourceError"
    /\ unitStatus = Status("Blocked", "Unknown resource kind")
    /\ \E o \in cluster : o.kind = "RbacConfig"

\* a run of handle_ingress that failed to load its manifest and sent the
\* response all the same
C31_WitnessIngress ==
    /\ lastPass.handler = "handle_ingress"
    /\ lastPass.outcome = "LoadResourceError"
    /\ unitStatus.kind = "Blocked"
    /\ \E i \in 1..Len(lastPass.ops) : lastPass.ops[i].op = "send_data"

====
